---- MODULE Spec2Model ----
(***************************************************************************)
(* Model of the recipe API (app/recipe/views.py): three owner-scoped       *)
(* resources (Tag, Ingredient, Recipe), the Recipe<->Tag and               *)
(* Recipe<->Ingredient link tables, and one HTTP exchange at a time.       *)
(*                                                                         *)
(* The store is the database.  Each API call is one exchange: a handler    *)
(* action runs the whole view (authentication, queryset, validation,       *)
(* write, response) and leaves the request in `req` and the response in    *)
(* `res` (the `res` of the tests); EndExchange then hands the response     *)
(* back and the next call or fixture write can start.  Nothing but the     *)
(* store survives from one exchange to the next.                           *)
(*                                                                         *)
(* An optional request field is a set: {} when the field is absent from    *)
(* the payload or query string, {v} when it is present with value v.       *)
(***************************************************************************)
EXTENDS Integers, Sequences, FiniteSets, TLC

\* ----------------------------------------------------------------- bound
\* the database holds at most MaxRows rows, link rows included, and hands
\* out at most MaxRows recipe ids
MaxRows == 4

\* ------------------------------------------------------------ input sets
Users == {"test@email.com", "other@email.com"}
AnonymousUser == "AnonymousUser"

TagNames == {"Vegan"}
IngredientNames == {"Cream"}
\* rank of a name in the database's string order
NameRank == [Vegan |-> 2, Cream |-> 1]

DefaultTitle == "Sample recipe"
NewTitle == "new title"
DefaultTimeMinutes == 10
NewTimeMinutes == 30
DefaultPrice == 500
NewPrice == 3059

\* the ids a request names, in its path or in an id list
TagIds == {1, 2}
IngredientIds == {1}
RecipeIds == {1, 2}

VARIABLES
    tags,                \* Tag rows: [id, name, user]
    ingredients,         \* Ingredient rows: [id, name, user]
    recipes,             \* Recipe rows: [id, title, time_minutes, price, user]
    recipe_tags,         \* link rows <<recipe id, tag id>>
    recipe_ingredients,  \* link rows <<recipe id, ingredient id>>
    next_recipe_id,      \* the Recipe table's auto-increment counter
    req,                 \* the request of the last exchange
    res                  \* its response: [status_code, data]

store == <<tags, ingredients, recipes, recipe_tags, recipe_ingredients,
           next_recipe_id>>
vars == <<tags, ingredients, recipes, recipe_tags, recipe_ingredients,
          next_recipe_id, req, res>>

\* ------------------------------------------------------------- requests
NoData == [name |-> {}, title |-> {}, time_minutes |-> {}, price |-> {},
           tags |-> {}, ingredients |-> {}, assigned_only |-> {}]

NoRequest == [action |-> "none", resource |-> "none", method |-> "none",
              user |-> AnonymousUser, pk |-> 0, data |-> NoData]
NoResponse == [status_code |-> 0, data |-> << >>]

Request(resource, action, method, user, pk, data) ==
    [action |-> action, resource |-> resource, method |-> method,
     user |-> user, pk |-> pk, data |-> data]

Response(status_code, data) == [status_code |-> status_code, data |-> data]

HTTP_200_OK == 200
HTTP_201_CREATED == 201
HTTP_204_NO_CONTENT == 204
HTTP_400_BAD_REQUEST == 400
HTTP_401_UNAUTHORIZED == 401
HTTP_404_NOT_FOUND == 404
HTTP_500_INTERNAL_SERVER_ERROR == 500

\* the rows in the database
RowCount ==
    Cardinality(tags) + Cardinality(ingredients) + Cardinality(recipes)
    + Cardinality(recipe_tags) + Cardinality(recipe_ingredients)

\* no exchange is under way: calls are made one at a time
Idle == req = NoRequest

\* ---------------------------------------------------------- store reads
Ids(rows) == {row.id : row \in rows}
Row(rows, pk) == CHOOSE row \in rows : row.id = pk

\* recipe.tags.all() / recipe.ingredients.all(), as id sets
TagsOf(links, recipe_id) == {l[2] : l \in {k \in links : k[1] = recipe_id}}

\* every ordering of a row set (a queryset without order_by)
Orderings(rows) ==
    {s \in [1..Cardinality(rows) -> rows] :
        \A i, j \in 1..Cardinality(rows) : i # j => s[i] # s[j]}

\* order_by('-name'): name descending, ties in any order
OrderByNameDesc(rows) ==
    {s \in Orderings(rows) :
        \A i, j \in 1..Cardinality(rows) :
            i < j => NameRank[s[i].name] >= NameRank[s[j].name]}

\* mutant: permission_classes = (AllowAny, )
IsAuthenticated_AllowAny(user) == TRUE

\* permission_classes = (IsAuthenticated, ) behind TokenAuthentication
IsAuthenticated(user) == user \in Users

\* mutant: get_queryset without .filter(user=self.request.user)
AttrGetQueryset_AllUsers(queryset, request) == OrderByNameDesc(queryset)

\* BaseRecipeAttrViewSet.get_queryset: the caller's rows, whatever the
\* query string holds, name descending
AttrGetQueryset(queryset, request) ==
    OrderByNameDesc({row \in queryset : row.user = request.user})

\* mutant: get_queryset without .filter(user=self.request.user)
RecipeGetQueryset_AllUsers(queryset, request) == queryset

\* RecipeViewSet.get_queryset: the caller's recipes, whatever the query
\* string holds
RecipeGetQueryset(queryset, request) ==
    {row \in queryset : row.user = request.user}

\* ----------------------------------------------------------- serializers
AttrSerializer(row) == [id |-> row.id, name |-> row.name]

RecipeSerializer(row, tag_links, ingredient_links) ==
    [id |-> row.id, title |-> row.title,
     time_minutes |-> row.time_minutes, price |-> row.price,
     tags |-> TagsOf(tag_links, row.id),
     ingredients |-> TagsOf(ingredient_links, row.id)]

RecipeDetailSerializer(row, tag_links, ingredient_links) ==
    [id |-> row.id, title |-> row.title,
     time_minutes |-> row.time_minutes, price |-> row.price,
     tags |-> {AttrSerializer(Row(tags, t)) :
                  t \in TagsOf(tag_links, row.id)},
     ingredients |-> {AttrSerializer(Row(ingredients, i)) :
                  i \in TagsOf(ingredient_links, row.id)}]

\* ------------------------------------------------------------- fixtures
\* sample_tag / Tag.objects.create(user=..., name=...)
sample_tag(user, name) ==
    /\ Idle
    /\ RowCount < MaxRows
    /\ tags' = tags \cup
         {[id |-> Cardinality(tags) + 1, name |-> name, user |-> user]}
    /\ UNCHANGED <<req, res, ingredients, recipes, recipe_tags,
                   recipe_ingredients, next_recipe_id>>

\* sample_ingredient / Ingredient.objects.create(user=..., name=...)
sample_ingredient(user, name) ==
    /\ Idle
    /\ RowCount < MaxRows
    /\ ingredients' = ingredients \cup
         {[id |-> Cardinality(ingredients) + 1, name |-> name,
           user |-> user]}
    /\ UNCHANGED <<req, res, tags, recipes, recipe_tags, recipe_ingredients,
                   next_recipe_id>>

\* sample_recipe(user): Recipe.objects.create(user=user, **defaults)
sample_recipe(user) ==
    /\ Idle
    /\ next_recipe_id <= MaxRows /\ RowCount < MaxRows
    /\ recipes' = recipes \cup
         {[id |-> next_recipe_id, title |-> DefaultTitle,
           time_minutes |-> DefaultTimeMinutes, price |-> DefaultPrice,
           user |-> user]}
    /\ next_recipe_id' = next_recipe_id + 1
    /\ UNCHANGED <<req, res, tags, ingredients, recipe_tags,
                   recipe_ingredients>>

\* recipe.tags.add(tag): the tests only ever link rows of one owner
recipe_tags_add(recipe_id, tag_id) ==
    /\ Idle
    /\ recipe_id \in Ids(recipes) /\ tag_id \in Ids(tags)
    /\ Row(recipes, recipe_id).user = Row(tags, tag_id).user
    /\ <<recipe_id, tag_id>> \notin recipe_tags
    /\ RowCount < MaxRows
    /\ recipe_tags' = recipe_tags \cup {<<recipe_id, tag_id>>}
    /\ UNCHANGED <<req, res, tags, ingredients, recipes, recipe_ingredients,
                   next_recipe_id>>

\* recipe.ingredients.add(ingredient)
recipe_ingredients_add(recipe_id, ingredient_id) ==
    /\ Idle
    /\ recipe_id \in Ids(recipes) /\ ingredient_id \in Ids(ingredients)
    /\ Row(recipes, recipe_id).user = Row(ingredients, ingredient_id).user
    /\ <<recipe_id, ingredient_id>> \notin recipe_ingredients
    /\ RowCount < MaxRows
    /\ recipe_ingredients' = recipe_ingredients \cup
                                {<<recipe_id, ingredient_id>>}
    /\ UNCHANGED <<req, res, tags, ingredients, recipes, recipe_tags,
                   next_recipe_id>>

\* ------------------------------------------------------ request inputs
AssignedOnlyParams == {{}, {1}}
IdListParams(ids) == {{}} \cup {{S} : S \in (SUBSET ids) \ {{}}}

AttrListData == {[NoData EXCEPT !.assigned_only = a] : a \in AssignedOnlyParams}
TagCreateData == {[NoData EXCEPT !.name = {n}] : n \in TagNames \cup {""}}
IngredientCreateData ==
    {[NoData EXCEPT !.name = {n}] : n \in IngredientNames \cup {""}}

\* ?tags=1,2 or ?ingredients=1 or neither
RecipeListData ==
    {[NoData EXCEPT !.tags = t] : t \in IdListParams(TagIds)}
    \cup {[NoData EXCEPT !.ingredients = i] : i \in IdListParams(IngredientIds)}

TitleOnly == [NoData EXCEPT !.title = {NewTitle}]
AllScalars == [NoData EXCEPT !.title = {NewTitle},
                             !.time_minutes = {NewTimeMinutes},
                             !.price = {NewPrice}]

\* a payload carries at most one of the two id lists
WithIdLists(scalars) ==
    {[s EXCEPT !.tags = t] : s \in scalars, t \in IdListParams(TagIds)}
    \cup {[s EXCEPT !.ingredients = i] :
             s \in scalars, i \in IdListParams(IngredientIds)}

\* POST and PUT payloads: all three scalars, or (invalid) the title alone
RecipePayloads == WithIdLists({AllScalars}) \cup {TitleOnly}
\* PATCH payloads: the title or no scalar at all
RecipePartialPayloads == WithIdLists({TitleOnly, NoData})
\* what a caller without a token sends
AnonymousPayload == [AllScalars EXCEPT !.tags = {{1}}]

\* ------------------------------------------------- Tag / Ingredient API
\* GET /tags, GET /ingredients (ListModelMixin.list)
AttrList(resource, queryset, user, data) ==
    LET request == Request(resource, "list", "GET", user, 0, data) IN
    /\ Idle
    /\ req' = request
    /\ IF ~IsAuthenticated(user)
         THEN res' = Response(HTTP_401_UNAUTHORIZED, << >>)
         ELSE \E rows \in AttrGetQueryset(queryset, request) :
                 res' = Response(HTTP_200_OK,
                     [i \in DOMAIN rows |-> AttrSerializer(rows[i])])
    /\ UNCHANGED store

TagList(user, data) == AttrList("tag", tags, user, data)
IngredientList(user, data) == AttrList("ingredient", ingredients, user, data)

\* serializer.is_valid() of TagSerializer / IngredientSerializer: the name
\* is required and not blank
AttrIsValid(data) == data.name # {} /\ data.name # {""}

\* mutant: perform_create calls serializer.save() without the user
AttrPerformCreate_NoUser(queryset, request) ==
    [id |-> Cardinality(queryset) + 1,
     name |-> CHOOSE n \in request.data.name : TRUE,
     user |-> AnonymousUser]

\* BaseRecipeAttrViewSet.perform_create: serializer.save(user=request.user)
AttrPerformCreate(queryset, request) ==
    [id |-> Cardinality(queryset) + 1,
     name |-> CHOOSE n \in request.data.name : TRUE,
     user |-> request.user]

\* POST /tags
TagCreate(user, data) ==
    LET request == Request("tag", "create", "POST", user, 0, data) IN
    /\ Idle
    /\ req' = request
    /\ IF ~IsAuthenticated(user)
         THEN res' = Response(HTTP_401_UNAUTHORIZED, << >>) /\ tags' = tags
         ELSE IF ~AttrIsValid(data)
         THEN res' = Response(HTTP_400_BAD_REQUEST, << >>) /\ tags' = tags
         ELSE /\ RowCount < MaxRows
              /\ tags' = tags \cup {AttrPerformCreate(tags, request)}
              /\ res' = Response(HTTP_201_CREATED,
                        <<AttrSerializer(AttrPerformCreate(tags, request))>>)
    /\ UNCHANGED <<ingredients, recipes, recipe_tags, recipe_ingredients,
                   next_recipe_id>>

\* POST /ingredients
IngredientCreate(user, data) ==
    LET request == Request("ingredient", "create", "POST", user, 0, data) IN
    /\ Idle
    /\ req' = request
    /\ IF ~IsAuthenticated(user)
         THEN /\ res' = Response(HTTP_401_UNAUTHORIZED, << >>)
              /\ ingredients' = ingredients
         ELSE IF ~AttrIsValid(data)
         THEN /\ res' = Response(HTTP_400_BAD_REQUEST, << >>)
              /\ ingredients' = ingredients
         ELSE /\ RowCount < MaxRows
              /\ ingredients' = ingredients \cup
                                  {AttrPerformCreate(ingredients, request)}
              /\ res' = Response(HTTP_201_CREATED,
                  <<AttrSerializer(AttrPerformCreate(ingredients, request))>>)
    /\ UNCHANGED <<tags, recipes, recipe_tags, recipe_ingredients,
                   next_recipe_id>>

\* ----------------------------------------------------------- Recipe API
\* RecipeViewSet.get_serializer_class
get_serializer_class(action) ==
    IF action = "retrieve" THEN "RecipeDetailSerializer"
    ELSE "RecipeSerializer"

Serialize(action, row, tag_links, ingredient_links) ==
    IF get_serializer_class(action) = "RecipeDetailSerializer"
    THEN RecipeDetailSerializer(row, tag_links, ingredient_links)
    ELSE RecipeSerializer(row, tag_links, ingredient_links)

\* mutant: the lookup runs on Recipe.objects.all(), not on get_queryset()
get_object_Unscoped(request) == {row \in recipes : row.id = request.pk}

\* GenericAPIView.get_object over get_queryset(): the rows a detail route
\* can address ({} is a 404)
get_object(request) ==
    {row \in RecipeGetQueryset(recipes, request) : row.id = request.pk}

\* mutant: the id lists are resolved against Tag.objects.all() and
\* Ingredient.objects.all(), and an unknown id is dropped
RecipeIsValid_AnyId(request, partial) ==
    partial \/ (request.data.title # {} /\ request.data.time_minutes # {}
                 /\ request.data.price # {})

\* serializer.is_valid() of RecipeSerializer: the three scalars are required
\* unless the update is partial; every id of an id list resolves to a row
\* of the caller
RecipeIsValid(request, partial) ==
    LET data == request.data
        own_tags == Ids({t \in tags : t.user = request.user})
        own_ingredients == Ids({i \in ingredients : i.user = request.user})
    IN /\ partial \/ (data.title # {} /\ data.time_minutes # {}
                        /\ data.price # {})
       /\ \A S \in data.tags : S \subseteq own_tags
       /\ \A S \in data.ingredients : S \subseteq own_ingredients

\* validated_data of an id list: the list when present; when absent, not in
\* validated_data for a partial update ({}), the empty list otherwise
ValidatedIds(field, partial) ==
    IF field # {} THEN field ELSE IF partial THEN {} ELSE {{}}

\* a scalar after serializer.update(): the payload's value when present
Updated(old, field) == IF field = {} THEN old ELSE CHOOSE v \in field : TRUE

\* the link table after instance.<field>.set(ids), when ids is validated
SetLinks(links, recipe_id, validated) ==
    IF validated = {} THEN links
    ELSE {l \in links : l[1] # recipe_id}
         \cup {<<recipe_id, i>> : i \in (CHOOSE S \in validated : TRUE)}

\* RecipeViewSet inherits ModelViewSet.perform_create, serializer.save():
\* the keyword arguments it passes to save() name no user
RecipePerformCreate(request) == {}

\* GET /recipes
RecipeList(user, data) ==
    LET request == Request("recipe", "list", "GET", user, 0, data) IN
    /\ Idle
    /\ req' = request
    /\ IF ~IsAuthenticated(user)
         THEN res' = Response(HTTP_401_UNAUTHORIZED, << >>)
         ELSE \E rows \in Orderings(RecipeGetQueryset(recipes, request)) :
                 res' = Response(HTTP_200_OK,
                     [i \in DOMAIN rows |->
                         Serialize("list", rows[i], recipe_tags,
                                   recipe_ingredients)])
    /\ UNCHANGED store

\* POST /recipes
RecipeCreate(user, data) ==
    LET request == Request("recipe", "create", "POST", user, 0, data)
        owner == RecipePerformCreate(request)
        row == [id |-> next_recipe_id,
                title |-> Updated(DefaultTitle, data.title),
                time_minutes |-> Updated(DefaultTimeMinutes,
                                         data.time_minutes),
                price |-> Updated(DefaultPrice, data.price),
                user |-> CHOOSE u \in owner : TRUE]
        tag_links == SetLinks(recipe_tags, next_recipe_id,
                              ValidatedIds(data.tags, FALSE))
        ingredient_links == SetLinks(recipe_ingredients, next_recipe_id,
                                     ValidatedIds(data.ingredients, FALSE))
    IN
    /\ Idle
    /\ req' = request
    /\ IF ~IsAuthenticated(user)
         THEN res' = Response(HTTP_401_UNAUTHORIZED, << >>)
              /\ UNCHANGED store
         ELSE IF ~RecipeIsValid(request, FALSE)
         THEN res' = Response(HTTP_400_BAD_REQUEST, << >>)
              /\ UNCHANGED store
         ELSE IF owner = {}
         \* INSERT with user_id NULL: IntegrityError, nothing is written
         THEN res' = Response(HTTP_500_INTERNAL_SERVER_ERROR, << >>)
              /\ UNCHANGED store
         ELSE /\ next_recipe_id <= MaxRows
              /\ RowCount + 1 + Cardinality(tag_links)
                    + Cardinality(ingredient_links)
                    - Cardinality(recipe_tags)
                    - Cardinality(recipe_ingredients) <= MaxRows
              /\ recipes' = recipes \cup {row}
              /\ recipe_tags' = tag_links
              /\ recipe_ingredients' = ingredient_links
              /\ next_recipe_id' = next_recipe_id + 1
              /\ res' = Response(HTTP_201_CREATED,
                     <<Serialize("create", row, tag_links,
                                 ingredient_links)>>)
              /\ UNCHANGED <<tags, ingredients>>

\* GET /recipes/{pk}
RecipeRetrieve(user, pk) ==
    LET request == Request("recipe", "retrieve", "GET", user, pk, NoData) IN
    /\ Idle
    /\ req' = request
    /\ IF ~IsAuthenticated(user)
         THEN res' = Response(HTTP_401_UNAUTHORIZED, << >>)
         ELSE IF get_object(request) = {}
         THEN res' = Response(HTTP_404_NOT_FOUND, << >>)
         ELSE \E instance \in get_object(request) :
                 res' = Response(HTTP_200_OK,
                     <<Serialize("retrieve", instance, recipe_tags,
                                 recipe_ingredients)>>)
    /\ UNCHANGED store

\* mutant: every update is handled as a partial one
IsPartial_Always(method) == TRUE

\* the partial flag UpdateModelMixin hands to the serializer
IsPartial(method) == method = "PATCH"

\* UpdateModelMixin.update, for PUT and for PATCH
Update(action, method, user, pk, data) ==
    LET request == Request("recipe", action, method, user, pk, data)
        partial == IsPartial(method)
    IN
    /\ Idle
    /\ req' = request
    /\ IF ~IsAuthenticated(user)
         THEN res' = Response(HTTP_401_UNAUTHORIZED, << >>)
              /\ UNCHANGED store
         ELSE IF get_object(request) = {}
         THEN res' = Response(HTTP_404_NOT_FOUND, << >>)
              /\ UNCHANGED store
         ELSE IF ~RecipeIsValid(request, partial)
         THEN res' = Response(HTTP_400_BAD_REQUEST, << >>)
              /\ UNCHANGED store
         ELSE \E instance \in get_object(request) :
              LET row == [instance EXCEPT
                     !.title = Updated(@, data.title),
                     !.time_minutes = Updated(@, data.time_minutes),
                     !.price = Updated(@, data.price)]
                  tag_links == SetLinks(recipe_tags, pk,
                                   ValidatedIds(data.tags, partial))
                  ingredient_links == SetLinks(recipe_ingredients, pk,
                                   ValidatedIds(data.ingredients, partial))
              IN /\ RowCount + Cardinality(tag_links)
                       + Cardinality(ingredient_links)
                       - Cardinality(recipe_tags)
                       - Cardinality(recipe_ingredients) <= MaxRows
                 /\ recipes' = (recipes \ {instance}) \cup {row}
                 /\ recipe_tags' = tag_links
                 /\ recipe_ingredients' = ingredient_links
                 /\ res' = Response(HTTP_200_OK,
                        <<Serialize(action, row, tag_links,
                                    ingredient_links)>>)
                 /\ UNCHANGED <<tags, ingredients, next_recipe_id>>

\* PUT /recipes/{pk}
RecipeUpdate(user, pk, data) == Update("update", "PUT", user, pk, data)

\* PATCH /recipes/{pk}
RecipePartialUpdate(user, pk, data) ==
    Update("partial_update", "PATCH", user, pk, data)

\* mutant: instance.delete() cascades to the linked Tag and Ingredient rows
RecipeDestroy_CascadesToAttrs(user, pk) ==
    LET request == Request("recipe", "destroy", "DELETE", user, pk, NoData) IN
    /\ Idle
    /\ req' = request
    /\ IF ~IsAuthenticated(user)
         THEN res' = Response(HTTP_401_UNAUTHORIZED, << >>)
              /\ UNCHANGED store
         ELSE IF get_object(request) = {}
         THEN res' = Response(HTTP_404_NOT_FOUND, << >>)
              /\ UNCHANGED store
         ELSE \E instance \in get_object(request) :
              /\ recipes' = recipes \ {instance}
              /\ tags' = {t \in tags : t.id \notin TagsOf(recipe_tags, pk)}
              /\ ingredients' =
                     {i \in ingredients :
                         i.id \notin TagsOf(recipe_ingredients, pk)}
              /\ recipe_tags' =
                     {l \in recipe_tags :
                         l[1] # pk /\ l[2] \notin TagsOf(recipe_tags, pk)}
              /\ recipe_ingredients' =
                     {l \in recipe_ingredients :
                         /\ l[1] # pk
                         /\ l[2] \notin TagsOf(recipe_ingredients, pk)}
              /\ res' = Response(HTTP_204_NO_CONTENT, << >>)
              /\ UNCHANGED next_recipe_id

\* DELETE /recipes/{pk}
RecipeDestroy(user, pk) ==
    LET request == Request("recipe", "destroy", "DELETE", user, pk, NoData) IN
    /\ Idle
    /\ req' = request
    /\ IF ~IsAuthenticated(user)
         THEN res' = Response(HTTP_401_UNAUTHORIZED, << >>)
              /\ UNCHANGED store
         ELSE IF get_object(request) = {}
         THEN res' = Response(HTTP_404_NOT_FOUND, << >>)
              /\ UNCHANGED store
         ELSE \E instance \in get_object(request) :
              \* instance.delete() cascades to the recipe's link rows
              /\ recipes' = recipes \ {instance}
              /\ recipe_tags' = {l \in recipe_tags : l[1] # pk}
              /\ recipe_ingredients' =
                     {l \in recipe_ingredients : l[1] # pk}
              /\ res' = Response(HTTP_204_NO_CONTENT, << >>)
              /\ UNCHANGED <<tags, ingredients, next_recipe_id>>

Init ==
    /\ tags = {} /\ ingredients = {} /\ recipes = {}
    /\ recipe_tags = {} /\ recipe_ingredients = {}
    /\ next_recipe_id = 1
    /\ req = NoRequest /\ res = NoResponse

Fixture ==
    \/ \E u \in Users, n \in TagNames : sample_tag(u, n)
    \/ \E u \in Users, n \in IngredientNames : sample_ingredient(u, n)
    \/ \E u \in Users : sample_recipe(u)
    \/ \E r \in 1..MaxRows, t \in 1..MaxRows : recipe_tags_add(r, t)
    \/ \E r \in 1..MaxRows, i \in 1..MaxRows : recipe_ingredients_add(r, i)

\* the API, called with a token
Authenticated ==
    \/ \E u \in Users, d \in AttrListData : TagList(u, d)
    \/ \E u \in Users, d \in TagCreateData : TagCreate(u, d)
    \/ \E u \in Users, d \in AttrListData : IngredientList(u, d)
    \/ \E u \in Users, d \in IngredientCreateData : IngredientCreate(u, d)
    \/ \E u \in Users, d \in RecipeListData : RecipeList(u, d)
    \/ \E u \in Users, d \in RecipePayloads : RecipeCreate(u, d)
    \/ \E u \in Users, pk \in RecipeIds : RecipeRetrieve(u, pk)
    \/ \E u \in Users, pk \in RecipeIds, d \in RecipePayloads :
          RecipeUpdate(u, pk, d)
    \/ \E u \in Users, pk \in RecipeIds, d \in RecipePartialPayloads :
          RecipePartialUpdate(u, pk, d)
    \/ \E u \in Users, pk \in RecipeIds : RecipeDestroy(u, pk)

\* the API, called without a token
Anonymous ==
    \/ \E d \in AttrListData : TagList(AnonymousUser, d)
    \/ \E d \in TagCreateData : TagCreate(AnonymousUser, d)
    \/ \E d \in AttrListData : IngredientList(AnonymousUser, d)
    \/ \E d \in IngredientCreateData : IngredientCreate(AnonymousUser, d)
    \/ RecipeList(AnonymousUser, NoData)
    \/ RecipeCreate(AnonymousUser, AnonymousPayload)
    \/ \E pk \in RecipeIds : RecipeRetrieve(AnonymousUser, pk)
    \/ \E pk \in RecipeIds : RecipeUpdate(AnonymousUser, pk, AnonymousPayload)
    \/ \E pk \in RecipeIds :
          RecipePartialUpdate(AnonymousUser, pk, AnonymousPayload)
    \/ \E pk \in RecipeIds : RecipeDestroy(AnonymousUser, pk)

\* res = self.client.get(...): the call returns, the exchange is over
EndExchange ==
    /\ req # NoRequest
    /\ req' = NoRequest /\ res' = NoResponse
    /\ UNCHANGED store

Next == Fixture \/ Authenticated \/ Anonymous \/ EndExchange

Spec == Init /\ [][Next]_vars

\* ======================================================== properties
OwnedBy(rows, user) == {row \in rows : row.user = user}
Table(resource) ==
    CASE resource = "tag" -> tags
      [] resource = "ingredient" -> ingredients
      [] OTHER -> recipes
\* the ids of the rows a response carries
Returned(response) == {response.data[i].id : i \in DOMAIN response.data}
NotFound == Response(HTTP_404_NOT_FOUND, << >>)
DetailActions == {"retrieve", "update", "partial_update", "destroy"}
\* the request of the step is a call of (resource, action) with a token
Calls(request, resource, action) ==
    /\ request.resource = resource /\ request.action = action
    /\ request.user \in Users

\* C1: a list of Tags, Ingredients or Recipes answered to user U carries
\* only rows U owns, and every row U owns when the query string is empty;
\* no row of another user is ever in it.
C1_ListsAreOwnerScoped ==
    (req.action = "list" /\ req.user \in Users) =>
        /\ res.status_code = HTTP_200_OK
        /\ Returned(res) \subseteq Ids(OwnedBy(Table(req.resource), req.user))
        /\ req.data = NoData =>
              /\ Returned(res) = Ids(OwnedBy(Table(req.resource), req.user))
              /\ Len(res.data) = Cardinality(Returned(res))

\* a user lists a table that holds rows of both users and gets their own
C1_Witness ==
    /\ req.action = "list" /\ req.user \in Users /\ req.data = NoData
    /\ Returned(res) # {}
    /\ \E row \in Table(req.resource) : row.user # req.user

\* C2: a retrieve, PATCH, PUT or DELETE by U2 on the id of a recipe of
\* U1 # U2 is answered NotFound, the very response U2 gets for an id that
\* no recipe has, and no stored row or link changes.
C2_CrossOwnerIsNotFound ==
    [][ \A action \in DetailActions :
          (Idle /\ Calls(req', "recipe", action)
                /\ req'.pk \notin Ids(OwnedBy(recipes, req'.user)))
          => (res' = NotFound /\ store' = store) ]_vars

\* U2 sent a PATCH to a recipe that exists and belongs to U1
C2_Witness ==
    /\ Calls(req, "recipe", "partial_update")
    /\ req.pk \in Ids(recipes) \ Ids(OwnedBy(recipes, req.user))
    /\ req.data.title # {}
    /\ res = NotFound

\* C3: any call made without an authenticated identity is answered 401
\* with no body and leaves the store as it was.
C3_AnonymousIsUnauthorized ==
    [][ (Idle /\ req' # NoRequest /\ req'.user \notin Users)
        => (res' = Response(HTTP_401_UNAUTHORIZED, << >>)
            /\ store' = store) ]_vars

\* a DELETE without a token on a recipe that exists
C3_Witness ==
    /\ req.action = "destroy" /\ req.user = AnonymousUser
    /\ req.pk \in Ids(recipes)
    /\ res.status_code = HTTP_401_UNAUTHORIZED

\* C4: every Tag and every Ingredient linked to a Recipe is a stored row
\* owned by the owner of that stored Recipe.
C4_LinksStayWithinOneOwner ==
    /\ \A l \in recipe_tags :
          /\ l[1] \in Ids(recipes) /\ l[2] \in Ids(tags)
          /\ Row(recipes, l[1]).user = Row(tags, l[2]).user
    /\ \A l \in recipe_ingredients :
          /\ l[1] \in Ids(recipes) /\ l[2] \in Ids(ingredients)
          /\ Row(recipes, l[1]).user = Row(ingredients, l[2]).user

\* an update through the API has just set a recipe's tags while the other
\* user owns a tag too
C4_Witness ==
    /\ Calls(req, "recipe", "update") /\ res.status_code = HTTP_200_OK
    /\ req.data.tags # {}
    /\ TagsOf(recipe_tags, req.pk) # {}
    /\ \E t \in tags : t.user # req.user

\* the ids of an id list that do not resolve to a row of the caller
Unresolved(request) ==
    (UNION request.data.tags \ Ids(OwnedBy(tags, request.user)))
    \cup (UNION request.data.ingredients
            \ Ids(OwnedBy(ingredients, request.user)))

\* C5: a create-recipe request naming a tag or ingredient id that is no row
\* of the caller (unknown, or another user's) fails as a whole: 400, and no
\* recipe row and no link is written.
C5_CreateWithBadIdIsRejected ==
    [][ (Idle /\ Calls(req', "recipe", "create") /\ Unresolved(req') # {})
        => (res'.status_code = HTTP_400_BAD_REQUEST /\ store' = store) ]_vars

\* a create naming one tag of the caller and one tag of the other user
C5_Witness ==
    /\ Calls(req, "recipe", "create")
    /\ req.data.title # {} /\ req.data.time_minutes # {}
    /\ req.data.price # {}
    /\ \E S \in req.data.tags :
          /\ S \cap Ids(OwnedBy(tags, req.user)) # {}
          /\ \E t \in S : t \in Ids(tags) /\ Row(tags, t).user # req.user
    /\ res.status_code = HTTP_400_BAD_REQUEST

\* the three scalars are in the payload
HasAllScalars(data) ==
    data.title # {} /\ data.time_minutes # {} /\ data.price # {}

\* C6: a valid create-recipe request by U is answered 201 and stores one
\* recipe owned by U whose fields are the payload's and whose tag and
\* ingredient sets are exactly the payload's id sets (empty when omitted).
C6_ValidCreateSucceeds ==
    (Calls(req, "recipe", "create") /\ HasAllScalars(req.data)
        /\ Unresolved(req) = {})
    => /\ res.status_code = HTTP_201_CREATED
       /\ Len(res.data) = 1
       /\ \E row \in OwnedBy(recipes, req.user) :
             /\ row.id = res.data[1].id
             /\ row.title \in req.data.title
             /\ row.time_minutes \in req.data.time_minutes
             /\ row.price \in req.data.price
             /\ TagsOf(recipe_tags, row.id) = UNION req.data.tags
             /\ TagsOf(recipe_ingredients, row.id)
                    = UNION req.data.ingredients

\* the caller's rows of `rows` that `links` ties to a recipe of the caller
Assigned(rows, links, user) ==
    {row \in OwnedBy(rows, user) :
        \E l \in links :
            l[2] = row.id /\ l[1] \in Ids(OwnedBy(recipes, user))}

\* C7: with assigned_only set, the Tag (Ingredient) list of U is exactly
\* U's rows linked to at least one recipe of U, each once.
C7_AssignedOnly ==
    (req.action = "list" /\ req.resource \in {"tag", "ingredient"}
        /\ req.user \in Users /\ req.data.assigned_only # {})
    => /\ Returned(res) =
            Ids(Assigned(Table(req.resource),
                         IF req.resource = "tag" THEN recipe_tags
                         ELSE recipe_ingredients, req.user))
       /\ Len(res.data) = Cardinality(Returned(res))

\* the recipes of `user` that pass an id-list filter ({} is no filter)
Matching(rows, links, param) ==
    {row \in rows :
        \A S \in param : TagsOf(links, row.id) \cap S # {}}

\* C8: the Recipe list of U with tags=<ids> (ingredients=<ids>) is exactly
\* U's recipes having at least one of the ids; without the parameter it is
\* all of U's recipes.
C8_RecipeListFilters ==
    Calls(req, "recipe", "list")
    => Returned(res) =
         Ids(Matching(Matching(OwnedBy(recipes, req.user), recipe_tags,
                               req.data.tags),
                      recipe_ingredients, req.data.ingredients))

\* the links of recipe pk after a successful update, given the links
\* before and the payload's field
LinksAfterUpdate(action, before, field) ==
    IF field # {} THEN UNION field
    ELSE IF action = "update" THEN {} ELSE before

\* C9: after a successful update by the owner the recipe's tag
\* (ingredient) set is the payload's id set when the field is present; when
\* it is absent the set is empty after a PUT and unchanged after a PATCH;
\* a scalar absent from a PATCH payload is unchanged.
C9_UpdateSemantics ==
    [][ \A action \in {"update", "partial_update"} :
          (Idle /\ Calls(req', "recipe", action)
                /\ res'.status_code = HTTP_200_OK)
          => LET pk == req'.pk
                 data == req'.data
             IN /\ pk \in Ids(OwnedBy(recipes, req'.user))
                /\ pk \in Ids(OwnedBy(recipes', req'.user))
                /\ TagsOf(recipe_tags', pk) =
                      LinksAfterUpdate(action, TagsOf(recipe_tags, pk),
                                       data.tags)
                /\ TagsOf(recipe_ingredients', pk) =
                      LinksAfterUpdate(action,
                          TagsOf(recipe_ingredients, pk), data.ingredients)
                /\ action = "partial_update" =>
                      /\ data.title = {} =>
                            Row(recipes', pk).title = Row(recipes, pk).title
                      /\ data.time_minutes = {} =>
                            Row(recipes', pk).time_minutes
                               = Row(recipes, pk).time_minutes
                      /\ data.price = {} =>
                            Row(recipes', pk).price = Row(recipes, pk).price
      ]_vars

\* a PUT that names an ingredient and no tags has emptied the tags of a
\* recipe whose owner has a tag
C9_Witness ==
    /\ Calls(req, "recipe", "update") /\ res.status_code = HTTP_200_OK
    /\ req.data.tags = {} /\ req.data.ingredients # {}
    /\ TagsOf(recipe_tags, req.pk) = {}
    /\ TagsOf(recipe_ingredients, req.pk) # {}
    /\ OwnedBy(tags, req.user) # {}

\* the recipe ids handed out and no longer stored
DeletedIds == (1..(next_recipe_id - 1)) \ Ids(recipes)

\* the ids an assigned_only list of `rows` would answer to `user` now
AssignedOnlyList(resource, rows, user) ==
    UNION {{s[i].id : i \in DOMAIN s} :
             s \in AttrGetQueryset(rows,
                    Request(resource, "list", "GET", user, 0,
                            [NoData EXCEPT !.assigned_only = {1}]))}

\* C10, but for assigned_only: the owner's DELETE is answered 204 and
\* removes the recipe and its links and nothing else; a deleted id never
\* comes back, is in no later list and is NotFound on retrieve.
C10_DestroyEffect ==
    /\ (Idle /\ Calls(req', "recipe", "destroy")
             /\ req'.pk \in Ids(OwnedBy(recipes, req'.user)))
       => /\ res'.status_code = HTTP_204_NO_CONTENT
          /\ recipes' = {row \in recipes : row.id # req'.pk}
          /\ recipe_tags' = {l \in recipe_tags : l[1] # req'.pk}
          /\ recipe_ingredients' =
                {l \in recipe_ingredients : l[1] # req'.pk}
          /\ tags' = tags /\ ingredients' = ingredients
    /\ DeletedIds \subseteq DeletedIds'
    /\ Calls(req', "recipe", "list") => Returned(res') \cap DeletedIds' = {}
    /\ (Calls(req', "recipe", "retrieve") /\ req'.pk \in DeletedIds')
       => res' = NotFound

\* C10, assigned_only: once the owner has deleted a recipe, a Tag or
\* Ingredient that was linked to that recipe alone is no longer in the
\* owner's assigned_only list.
C10_DestroyUnassigns ==
    (Idle /\ Calls(req', "recipe", "destroy")
          /\ res'.status_code = HTTP_204_NO_CONTENT)
    => /\ \A t \in TagsOf(recipe_tags, req'.pk) :
             (\A l \in recipe_tags : l[2] = t => l[1] = req'.pk)
             => t \notin AssignedOnlyList("tag", tags', req'.user)
       /\ \A i \in TagsOf(recipe_ingredients, req'.pk) :
             (\A l \in recipe_ingredients : l[2] = i => l[1] = req'.pk)
             => i \notin AssignedOnlyList("ingredient", ingredients',
                                           req'.user)

\* C10: deleting a recipe as its owner returns 204; from then on it is in
\* no list and NotFound on retrieve; its links are gone, so a Tag or
\* Ingredient linked only to it no longer appears under assigned_only; the
\* Tag and Ingredient rows and every other recipe and link are unchanged.
C10_Destroy == [][C10_DestroyEffect /\ C10_DestroyUnassigns]_vars

\* the part of C10 that does not read assigned_only
C10_DestroyEffectHolds == [][C10_DestroyEffect]_vars

\* what a create call on `resource` does to its table (before, after) and
\* to the rest of the store
CreateEffect(resource, before, after, others_unchanged) ==
    (Idle /\ Calls(req', resource, "create"))
    => IF req'.data.name = {""}
       THEN /\ res'.status_code = HTTP_400_BAD_REQUEST
            /\ store' = store
       ELSE /\ res'.status_code = HTTP_201_CREATED
            /\ \E row \in after \ before :
                  /\ after = before \cup {row}
                  /\ row.id \notin Ids(before)
                  /\ row.name \in req'.data.name
                  /\ row.user = req'.user
            /\ others_unchanged

\* C11: a Tag or Ingredient create with an empty name is answered 400 and
\* leaves the stored rows as they were; a create with a non-empty name is
\* answered 201 and stores exactly one new row, with that name, owned by
\* the caller.
C11_CreateAttr ==
    [][ /\ CreateEffect("tag", tags, tags',
              UNCHANGED <<ingredients, recipes, recipe_tags,
                          recipe_ingredients, next_recipe_id>>)
        /\ CreateEffect("ingredient", ingredients, ingredients',
              UNCHANGED <<tags, recipes, recipe_tags, recipe_ingredients,
                          next_recipe_id>>)
      ]_vars

\* a tag create with an empty name was refused while the caller already
\* owns a tag created through the API or a fixture
C11_Witness ==
    /\ Calls(req, "tag", "create") /\ req.data.name = {""}
    /\ res.status_code = HTTP_400_BAD_REQUEST
    /\ OwnedBy(tags, req.user) # {}

\* every row of `before` is in `after` as it was, and no new row takes the
\* id of an old one
WriteOnce(before, after) ==
    /\ before \subseteq after
    /\ \A row \in after \ before : row.id \notin Ids(before)

\* C12: a Tag or Ingredient row, once stored, is never removed and keeps
\* its name and its owner through every later operation, recipe update and
\* recipe delete included; the Tag and Ingredient resources are only ever
\* called for list and create.
C12_AttrsAreWriteOnce ==
    [][ /\ WriteOnce(tags, tags')
        /\ WriteOnce(ingredients, ingredients')
        /\ req'.resource \in {"tag", "ingredient"}
              => req'.action \in {"list", "create"}
      ]_vars

\* the owner has deleted a recipe through the API and their tag and
\* ingredient are still stored
C12_Witness ==
    /\ Calls(req, "recipe", "destroy")
    /\ res.status_code = HTTP_204_NO_CONTENT
    /\ OwnedBy(tags, req.user) # {}
    /\ OwnedBy(ingredients, req.user) # {}

====
